---------------------------- MODULE Spec2Model ----------------------------
(***************************************************************************)
(* People Notebook: the birthday reminder scheduler, the date helpers and  *)
(* the CRUD handlers of app/main.py, app/utils.py and app/db.py.           *)
(*                                                                         *)
(* Conventions.  Python's None is written None (0): every optional integer *)
(* the program stores is normalised with `x or None`, so a stored 0 and a  *)
(* stored None are the same value, and every test the code makes on such a *)
(* field (`not (a and b)`, `!= today.year`) treats both alike.  A calendar *)
(* date is a record [year, month, day]; a call of datetime.date that raises *)
(* ValueError is the value Raised.  An uploaded file is named by a fresh    *)
(* positive number (the uuid4 name), and "/uploads/<name>" by that number.  *)
(* A key names one row for good: every new row gets a key above all given  *)
(* before in its table.  (SQLite may give the key of a deleted last row to *)
(* the next row; the model names that row by another key.)                 *)
(***************************************************************************)
EXTENDS Integers, Sequences, FiniteSets, TLC

VARIABLES
    today,      \* the system clock's calendar date (date.today())
    person,     \* table person: id -> row
    pet,        \* table pet: id -> row
    child,      \* table child: id -> row
    note,       \* table note: id -> row
    files,      \* the names of the files in UPLOAD_DIR
    ids,        \* the last key given out per table, and the last file name
    resp,       \* the last request of the client under observation, and its response
    req,        \* per request thread: the request it is handling and what it has read
    wpc,        \* where _birthday_watcher stands
    scan,       \* the locals and the session of the current (or last) scan
    sent,       \* calls of _send_telegram this calendar year: <<person id, threshold>> -> count
    fn, arg, ret    \* a helper under test, its argument and what it returned

dbVars == <<person, pet, child, note, files, ids>>
watcherVars == <<wpc, scan, sent>>
dateVars == <<fn, arg, ret>>
clientVars == <<resp, req>>
vars == <<today, person, pet, child, note, files, ids, resp, req, wpc, scan, sent, fn, arg, ret>>

None == 0

---------------------------------------------------------------------------
(* datetime.date as the helpers use it *)

Date(y, m, d) == [year |-> y, month |-> m, day |-> d]

Raised == [year |-> 0, month |-> 0, day |-> 0]

IsLeap(y) == (y % 4 = 0) /\ ((y % 100 # 0) \/ (y % 400 = 0))

DaysInMonth(y, m) ==
    IF m = 2 THEN (IF IsLeap(y) THEN 29 ELSE 28)
    ELSE IF m \in {4, 6, 9, 11} THEN 30 ELSE 31

\* date(y, m, d) returns a date; otherwise it raises ValueError
DateOk(y, m, d) ==
    /\ y >= 1
    /\ m \in 1..12
    /\ d >= 1 /\ d <= DaysInMonth(y, m)

DateLt(a, b) ==
    \/ a.year < b.year
    \/ a.year = b.year /\ a.month < b.month
    \/ a.year = b.year /\ a.month = b.month /\ a.day < b.day

DaysBeforeYear(y) ==
    (y - 1) * 365 + ((y - 1) \div 4) - ((y - 1) \div 100) + ((y - 1) \div 400)

DaysBeforeMonth(y, m) ==
    <<0, 31, 59, 90, 120, 151, 181, 212, 243, 273, 304, 334>>[m]
        + (IF m > 2 /\ IsLeap(y) THEN 1 ELSE 0)

Ordinal(a) == DaysBeforeYear(a.year) + DaysBeforeMonth(a.year, a.month) + a.day

\* (a - b).days
DaysBetween(a, b) == Ordinal(a) - Ordinal(b)

\* Python's (a1, a2) < (b1, b2)
TupleLt(a1, a2, b1, b2) == a1 < b1 \/ (a1 = b1 /\ a2 < b2)

---------------------------------------------------------------------------
(* app/main.py: _safe_date, and the next-occurrence step of the scan *)

\* a _safe_date that does not step down: an invalid day gives the first of the month
safe_date_first_only(year, month, day) ==
    IF DateOk(year, month, day) THEN Date(year, month, day)
    ELSE IF DateOk(year, month, 1) THEN Date(year, month, 1) ELSE Raised

RECURSIVE safe_date(_, _, _)
safe_date(year, month, day) ==
    IF DateOk(year, month, day) THEN Date(year, month, day)
    ELSE IF day - 1 <= 0
         THEN (IF DateOk(year, month, 1) THEN Date(year, month, 1) ELSE Raised)
         ELSE safe_date(year, month, day - 1)

\* a next occurrence that never moves to the next year
next_birthday_no_rollover(t, month, day) == safe_date(t.year, month, day)

\* bday of the scan loop: Raised when _safe_date raises
next_birthday(t, month, day) ==
    LET bday == safe_date(t.year, month, day)
    IN  IF bday = Raised THEN Raised
        ELSE IF DateLt(bday, t) THEN safe_date(t.year + 1, month, day)
        ELSE bday

---------------------------------------------------------------------------
(* app/utils.py: calc_age.  Optional[int] results are <<>> or <<n>>. *)

\* a calc_age that compares with <= in place of <
calc_age_le(d, m, y) ==
    IF d = None \/ m = None \/ y = None THEN <<>>
    ELSE IF ~DateOk(y, m, d) THEN <<>>
    ELSE <<today.year - y
             - (IF TupleLt(today.month, today.day, m, d) \/ (today.month = m /\ today.day = d)
                THEN 1 ELSE 0)>>

calc_age(d, m, y) ==
    IF d = None \/ m = None \/ y = None THEN <<>>
    ELSE IF ~DateOk(y, m, d) THEN <<>>
    ELSE <<today.year - y
             - (IF TupleLt(today.month, today.day, m, d) THEN 1 ELSE 0)>>

---------------------------------------------------------------------------
(* Bounds and inputs of the model *)

MaxPersons == 2
MaxPets == 2
MaxChildren == 1
MaxNotes == 1
MaxFiles == 2
MaxTicks == 2
MaxCount == 2
MaxThreads == 2

\* The dates the clock visits.  With the birthdays of BirthInputs these are
\* the only dates on which a scan finds somebody 7 days or 1 day ahead; on
\* every date between two of them a scan sends nothing and writes nothing.
Calendar ==
    <<Date(2024, 12, 25), Date(2024, 12, 31), Date(2025, 12, 25), Date(2025, 12, 31),
      Date(2026, 12, 25)>>

\* <<birth_day, birth_month>> form fields: no birthday, 1 January, and a
\* month that does not exist
BirthInputs == {<<None, None>>, <<1, 1>>, <<1, 13>>}

\* the birthday a form submits where the stored value is not what is examined
FormBirthdays == {<<1, 1>>}

\* the birthday an update submits while a scan runs: 2 January
MovedBirthdays == {<<2, 1>>}

PersonIds == 1..MaxPersons
PetIds == 1..MaxPets
ChildIds == 1..MaxChildren
Threads == 1..MaxThreads

---------------------------------------------------------------------------
(* The store (app/models.py, app/db.py) and the uploads directory *)

Without(f, k) == [i \in DOMAIN f \ {k} |-> f[i]]
With(f, k, v) == [i \in DOMAIN f \cup {k} |-> IF i = k THEN v ELSE f[i]]

NoRows == [i \in {} |-> None]

\* the columns of person the handlers and the scan read or write
Person(birth_day, birth_month, avatar_path) ==
    [birth_day |-> birth_day, birth_month |-> birth_month,
     notify_year_7d |-> None, notify_year_1d |-> None,
     avatar_path |-> avatar_path]

Pet(person_id, photo_path) == [person_id |-> person_id, photo_path |-> photo_path]
Child(person_id) == [person_id |-> person_id]
Note(person_id) == [person_id |-> person_id]

PetsOf(pid) == {i \in DOMAIN pet : pet[i].person_id = pid}
ChildrenOf(pid) == {i \in DOMAIN child : child[i].person_id = pid}

\* a person_delete that selects no notes
NotesOf_none(pid) == {}

NotesOf(pid) == {i \in DOMAIN note : note[i].person_id = pid}

\* a _safe_remove_file that removes nothing
safe_remove_file_never(fs, path, unlinkRaises) == fs

\* _safe_remove_file: the directory after the call; unlinkRaises is whether
\* fs_path.unlink() raises, which the code swallows
safe_remove_file(fs, path, unlinkRaises) ==
    IF path = None THEN fs
    ELSE IF path \in fs
         THEN (IF unlinkRaises THEN fs ELSE fs \ {path})
         ELSE fs

RECURSIVE RemoveEach(_, _, _)
RemoveEach(fs, paths, stuck) ==
    IF paths = {} THEN fs
    ELSE LET path == CHOOSE x \in paths : TRUE
         IN  RemoveEach(safe_remove_file(fs, path, path \in stuck), paths \ {path}, stuck)

---------------------------------------------------------------------------
(* app/main.py: the request handlers, each as its effect on the store and   *)
(* the uploads directory, and the status of its response.  avatar and photo *)
(* say whether the form carries a file; stuck is the set of files whose     *)
(* unlink raises.  Text columns are not in the model.                       *)

create_person(birth_day, birth_month, avatar) ==
    /\ ids.person < MaxPersons
    /\ avatar => ids.file < MaxFiles
    /\ LET avatar_path == IF avatar THEN ids.file + 1 ELSE None
       IN  /\ files' = IF avatar THEN files \cup {avatar_path} ELSE files
           /\ person' = With(person, ids.person + 1,
                             Person(birth_day, birth_month, avatar_path))
           /\ ids' = [ids EXCEPT !.person = @ + 1, !.file = IF avatar THEN @ + 1 ELSE @]
    /\ UNCHANGED <<today, pet, child, note, watcherVars, dateVars>>

create_person_status == 302

person_edit_status(pid) == IF pid \in DOMAIN person THEN 200 ELSE 404

person_detail_status(pid) == IF pid \in DOMAIN person THEN 200 ELSE 404

\* person_edit and person_detail render a page and write nothing
Render == UNCHANGED <<today, dbVars, watcherVars, dateVars>>

update_person(pid, birth_day, birth_month, avatar, stuck) ==
    IF pid \notin DOMAIN person
    THEN UNCHANGED <<today, dbVars, watcherVars, dateVars>>
    ELSE /\ avatar => ids.file < MaxFiles
         /\ LET old == person[pid].avatar_path
                new == ids.file + 1
            IN  /\ files' = IF avatar
                            THEN safe_remove_file(files, old, old \in stuck) \cup {new}
                            ELSE files
                /\ person' = [person EXCEPT ![pid] =
                                [@ EXCEPT !.birth_day = birth_day,
                                          !.birth_month = birth_month,
                                          !.avatar_path = IF avatar THEN new ELSE @]]
                /\ ids' = [ids EXCEPT !.file = IF avatar THEN new ELSE @]
         /\ UNCHANGED <<today, pet, child, note, watcherVars, dateVars>>

update_person_status(pid) == IF pid \in DOMAIN person THEN 302 ELSE 404

\* the file references person_delete hands to _safe_remove_file
HeldBy(pid) == {pet[i].photo_path : i \in PetsOf(pid)} \cup {person[pid].avatar_path}

person_delete(pid, stuck) ==
    IF pid \notin DOMAIN person
    THEN UNCHANGED <<today, dbVars, watcherVars, dateVars>>
    ELSE /\ files' = RemoveEach(files, HeldBy(pid), stuck)
         /\ pet' = [i \in DOMAIN pet \ PetsOf(pid) |-> pet[i]]
         /\ child' = [i \in DOMAIN child \ ChildrenOf(pid) |-> child[i]]
         /\ note' = [i \in DOMAIN note \ NotesOf(pid) |-> note[i]]
         /\ person' = Without(person, pid)
         /\ UNCHANGED <<today, ids, watcherVars, dateVars>>

person_delete_status(pid) == IF pid \in DOMAIN person THEN 302 ELSE 302

\* a pet_create without the lookup of the person
pet_create_unchecked(pid, photo) ==
    /\ ids.pet < MaxPets
    /\ photo => ids.file < MaxFiles
    /\ LET photo_path == IF photo THEN ids.file + 1 ELSE None
       IN  /\ files' = IF photo THEN files \cup {photo_path} ELSE files
           /\ pet' = With(pet, ids.pet + 1, Pet(pid, photo_path))
           /\ ids' = [ids EXCEPT !.pet = @ + 1, !.file = IF photo THEN @ + 1 ELSE @]
    /\ UNCHANGED <<today, person, child, note, watcherVars, dateVars>>

pet_create(pid, photo) ==
    IF pid \notin DOMAIN person
    THEN UNCHANGED <<today, dbVars, watcherVars, dateVars>>
    ELSE /\ ids.pet < MaxPets
         /\ photo => ids.file < MaxFiles
         /\ LET photo_path == IF photo THEN ids.file + 1 ELSE None
            IN  /\ files' = IF photo THEN files \cup {photo_path} ELSE files
                /\ pet' = With(pet, ids.pet + 1, Pet(pid, photo_path))
                /\ ids' = [ids EXCEPT !.pet = @ + 1, !.file = IF photo THEN @ + 1 ELSE @]
         /\ UNCHANGED <<today, person, child, note, watcherVars, dateVars>>

pet_create_status(pid) == IF pid \in DOMAIN person THEN 302 ELSE 404

pet_edit(pet_id, photo, stuck) ==
    IF pet_id \notin DOMAIN pet
    THEN UNCHANGED <<today, dbVars, watcherVars, dateVars>>
    ELSE /\ photo => ids.file < MaxFiles
         /\ LET old == pet[pet_id].photo_path
                new == ids.file + 1
            IN  /\ files' = IF photo
                            THEN safe_remove_file(files, old, old \in stuck) \cup {new}
                            ELSE files
                /\ pet' = [pet EXCEPT ![pet_id].photo_path = IF photo THEN new ELSE @]
                /\ ids' = [ids EXCEPT !.file = IF photo THEN new ELSE @]
         /\ UNCHANGED <<today, person, child, note, watcherVars, dateVars>>

pet_edit_status(pet_id) == IF pet_id \in DOMAIN pet THEN 302 ELSE 302

pet_delete(pet_id, stuck) ==
    IF pet_id \notin DOMAIN pet
    THEN UNCHANGED <<today, dbVars, watcherVars, dateVars>>
    ELSE LET old == pet[pet_id].photo_path
         IN  /\ files' = safe_remove_file(files, old, old \in stuck)
             /\ pet' = Without(pet, pet_id)
             /\ UNCHANGED <<today, person, child, note, ids, watcherVars, dateVars>>

pet_delete_status(pet_id) == IF pet_id \in DOMAIN pet THEN 302 ELSE 302

child_create(pid) ==
    IF pid \notin DOMAIN person
    THEN UNCHANGED <<today, dbVars, watcherVars, dateVars>>
    ELSE /\ ids.child < MaxChildren
         /\ child' = With(child, ids.child + 1, Child(pid))
         /\ ids' = [ids EXCEPT !.child = @ + 1]
         /\ UNCHANGED <<today, person, pet, note, files, watcherVars, dateVars>>

child_create_status(pid) == IF pid \in DOMAIN person THEN 302 ELSE 404

\* every column child_edit writes is a text or birth-date column of child
child_edit(child_id) == UNCHANGED <<today, dbVars, watcherVars, dateVars>>

child_edit_status(child_id) == IF child_id \in DOMAIN child THEN 302 ELSE 302

child_delete(child_id) ==
    IF child_id \notin DOMAIN child
    THEN UNCHANGED <<today, dbVars, watcherVars, dateVars>>
    ELSE /\ child' = Without(child, child_id)
         /\ UNCHANGED <<today, person, pet, note, files, ids, watcherVars, dateVars>>

child_delete_status(child_id) == IF child_id \in DOMAIN child THEN 302 ELSE 302

\* The handlers of app/main.py create no Note; the CRUD surface of the
\* specification ("create/edit/delete ... note records scoped to a person")
\* does, and person_delete removes the notes it finds.
note_create(pid) ==
    IF pid \notin DOMAIN person
    THEN UNCHANGED <<today, dbVars, watcherVars, dateVars>>
    ELSE /\ ids.note < MaxNotes
         /\ note' = With(note, ids.note + 1, Note(pid))
         /\ ids' = [ids EXCEPT !.note = @ + 1]
         /\ UNCHANGED <<today, person, pet, child, files, watcherVars, dateVars>>

---------------------------------------------------------------------------
(* app/main.py: _birthday_watcher, _check_birthdays_and_notify and          *)
(* _send_telegram.  The watcher runs with the reminders configured.  wpc is *)
(* "start" (the sleep of 3 s after startup), "loop" (inside the scan),      *)
(* "yielded" (the scan has committed and yielded), "raised" (an exception   *)
(* is on its way to the watcher's except clause), "sleep" (the sleep of     *)
(* 12 h) or "dead" (the task has ended).  After the except clause has       *)
(* printed the error, scan.result is "logged" until the next scan.          *)
(* scan holds the scan's locals: today, people (the rows as loaded), idx    *)
(* (the place of p in people), run (the notifications of this run, each     *)
(* with the marker assignment pending in the session and whether the        *)
(* delivery succeeded) and result.                                          *)

NoScan == [today |-> Raised, people |-> <<>>, idx |-> 0, run |-> {}, result |-> "none"]

RECURSIVE InOrder(_)
InOrder(S) ==
    IF S = {} THEN <<>>
    ELSE LET lo == CHOOSE x \in S : \A y \in S : x <= y
         IN  <<lo>> \o InOrder(S \ {lo})

\* session.exec(select(Person)).all(): the rows as loaded, in key order
AllPeople ==
    LET order == InOrder(DOMAIN person)
    IN  [i \in 1..Len(order) |->
            [id |-> order[i],
             birth_day |-> person[order[i]].birth_day,
             birth_month |-> person[order[i]].birth_month,
             notify_year_7d |-> person[order[i]].notify_year_7d,
             notify_year_1d |-> person[order[i]].notify_year_1d]]

Count(key) == IF key \in DOMAIN sent THEN sent[key] ELSE 0

\* one more call of _send_telegram; the log stops counting at MaxCount
Logged(key) == With(sent, key, IF Count(key) < MaxCount THEN Count(key) + 1 ELSE MaxCount)

\* a _send_telegram without its try/except
send_telegram_propagates(ok) == ~ok

\* _send_telegram: whether the call raises, given whether the delivery succeeds
send_telegram_raises(ok) == FALSE

\* a test that ignores the marker
due_any_marker(days_left, threshold, marker, year) == days_left = threshold

\* the test guarding each of the two notifications
due(days_left, threshold, marker, year) == days_left = threshold /\ marker # year

ScanBegin ==
    /\ wpc \in {"start", "sleep"}
    /\ wpc' = "loop"
    /\ scan' = [today |-> today, people |-> AllPeople, idx |-> 1, run |-> {},
                result |-> "running"]
    /\ UNCHANGED <<today, dbVars, clientVars, sent, dateVars>>

\* one pass of the body of `for p in people`; days_left is one number, so at
\* most one of the two notifications is due
ScanPerson ==
    /\ wpc = "loop"
    /\ scan.idx <= Len(scan.people)
    /\ LET p == scan.people[scan.idx]
           year == scan.today.year
           bday == next_birthday(scan.today, p.birth_month, p.birth_day)
           days_left == DaysBetween(bday, scan.today)
           threshold == IF due(days_left, 7, p.notify_year_7d, year) THEN 7
                        ELSE IF due(days_left, 1, p.notify_year_1d, year) THEN 1
                        ELSE 0
       IN  IF p.birth_day = None \/ p.birth_month = None
           THEN /\ scan' = [scan EXCEPT !.idx = @ + 1]
                /\ UNCHANGED <<wpc, sent>>
           ELSE IF bday = Raised
           THEN /\ scan' = [scan EXCEPT !.result = "raised"]
                /\ wpc' = "raised"
                /\ UNCHANGED sent
           ELSE IF threshold = 0
           THEN /\ scan' = [scan EXCEPT !.idx = @ + 1]
                /\ UNCHANGED <<wpc, sent>>
           ELSE \E ok \in BOOLEAN :
                    LET call == [id |-> p.id, days |-> threshold, year |-> year, ok |-> ok]
                    IN  /\ sent' = Logged(<<p.id, threshold>>)
                        /\ IF send_telegram_raises(ok)
                           THEN /\ scan' = [scan EXCEPT !.run = @ \cup {call},
                                                        !.result = "raised"]
                                /\ wpc' = "raised"
                           ELSE /\ scan' = [scan EXCEPT !.run = @ \cup {call},
                                                        !.idx = @ + 1]
                                /\ UNCHANGED wpc
    /\ UNCHANGED <<today, dbVars, clientVars, dateVars>>

\* the rows after the UPDATEs of the flush: each writes the one column the
\* scan assigned
Flushed(rows, run) ==
    [i \in DOMAIN rows |->
        [rows[i] EXCEPT
            !.notify_year_7d =
                IF \E r \in run : r.id = i /\ r.days = 7
                THEN (CHOOSE r \in run : r.id = i /\ r.days = 7).year ELSE @,
            !.notify_year_1d =
                IF \E r \in run : r.id = i /\ r.days = 1
                THEN (CHOOSE r \in run : r.id = i /\ r.days = 1).year ELSE @]]

\* a commit that writes the rows it finds although the flush raises
ScanCommit_partial ==
    /\ wpc = "loop"
    /\ scan.idx > Len(scan.people)
    /\ person' = Flushed(person, scan.run)
    /\ IF \A r \in scan.run : r.id \in DOMAIN person
       THEN /\ scan' = [scan EXCEPT !.result = "committed"]
            /\ wpc' = "yielded"
       ELSE /\ scan' = [scan EXCEPT !.result = "raised"]
            /\ wpc' = "raised"
    /\ UNCHANGED <<today, pet, child, note, files, ids, clientVars, sent, dateVars>>

\* session.commit() after the loop, then `yield True`.  The flush updates
\* each changed row by its key; an UPDATE that matches no row (the person was
\* deleted meanwhile) raises StaleDataError and the transaction is rolled back.
ScanCommit ==
    /\ wpc = "loop"
    /\ scan.idx > Len(scan.people)
    /\ IF \A r \in scan.run : r.id \in DOMAIN person
       THEN /\ person' = Flushed(person, scan.run)
            /\ scan' = [scan EXCEPT !.result = "committed"]
            /\ wpc' = "yielded"
       ELSE /\ scan' = [scan EXCEPT !.result = "raised"]
            /\ wpc' = "raised"
            /\ UNCHANGED person
    /\ UNCHANGED <<today, pet, child, note, files, ids, clientVars, sent, dateVars>>

\* the generator ends, the session is closed, and the watcher sleeps 12 h
ScanEnd ==
    /\ wpc = "yielded"
    /\ wpc' = "sleep"
    /\ scan' = NoScan
    /\ UNCHANGED <<today, dbVars, clientVars, sent, dateVars>>

\* a watcher without its try/except
watcher_after_exception_ends == "dead"

\* `except Exception as e: print(...)`, then the sleep of 12 h
watcher_after_exception == "sleep"

WatcherCatch ==
    /\ wpc = "raised"
    /\ wpc' = watcher_after_exception
    /\ scan' = [NoScan EXCEPT !.result = "logged"]
    /\ UNCHANGED <<today, dbVars, clientVars, sent, dateVars>>

\* the process stops inside a scan and is started again: the session is lost
\* with the process, and _startup launches a new watcher
Crash ==
    /\ wpc = "loop"
    /\ wpc' = "start"
    /\ scan' = [scan EXCEPT !.result = "crashed"]
    /\ UNCHANGED <<today, dbVars, clientVars, sent, dateVars>>

\* the watcher sleeps through the days to the next date of Calendar; the
\* log of calls starts anew with a new calendar year
Tick ==
    /\ wpc = "sleep"
    /\ \E i \in 1..MaxTicks :
          /\ i < Len(Calendar)
          /\ today = Calendar[i]
          /\ today' = Calendar[i + 1]
          /\ sent' = IF Calendar[i + 1].year = today.year THEN sent ELSE NoRows
    /\ UNCHANGED <<dbVars, clientVars, wpc, scan, dateVars>>

---------------------------------------------------------------------------
(* Specifications *)

NoOwned == [pet |-> {}, child |-> {}, note |-> {}]

\* the last request and its response; found, held, stuck and owned record
\* what the request met: whether the row it looked up existed, the file
\* references it handed to _safe_remove_file, those among them whose unlink
\* raised, (person_delete) the rows that belonged to the person, and
\* (update_person, pet_edit) whether the form carried a file
Response(op, id, found, status, held, stuck) ==
    [op |-> op, id |-> id, found |-> found, status |-> status,
     held |-> held \ {None}, stuck |-> stuck \cap held, owned |-> NoOwned,
     upload |-> FALSE]

NoFiles == {}

\* a request thread between two requests; of a request in flight, req holds
\* the handler (op), the id of the path, pc (the statement it will run
\* next), whether the form carries a file (upload), the file reference of
\* the row it loaded (path), the rows person_delete has selected (sel) and
\* the person row update_person loaded (row)
NoReq == [op |-> "none", id |-> 0, pc |-> "idle", upload |-> FALSE, path |-> None,
          sel |-> NoOwned, row |-> None]

Idle ==
    /\ person = NoRows /\ pet = NoRows /\ child = NoRows /\ note = NoRows
    /\ files = {}
    /\ ids = [person |-> 0, pet |-> 0, child |-> 0, note |-> 0, file |-> 0]
    /\ resp = Response("none", 0, FALSE, 0, {}, {})
    /\ req = [t \in Threads |-> NoReq]
    /\ wpc = "start"
    /\ scan = NoScan
    /\ sent = NoRows

Init ==
    /\ today = Calendar[1]
    /\ Idle
    /\ fn = "none" /\ arg = Raised /\ ret = <<>>

Watcher == ScanBegin \/ ScanPerson \/ ScanCommit \/ ScanEnd \/ WatcherCatch

\* requests on people, of clients that are not observed
PersonRequests ==
    \/ \E b \in BirthInputs : create_person(b[1], b[2], FALSE) /\ UNCHANGED clientVars
    \/ \E pid \in PersonIds, b \in FormBirthdays :
          update_person(pid, b[1], b[2], FALSE, {}) /\ UNCHANGED clientVars
    \/ \E pid \in PersonIds : person_delete(pid, {}) /\ UNCHANGED clientVars

\* the scheduler, the clock and the requests on people
Next == Watcher \/ Tick \/ PersonRequests

Spec == Init /\ [][Next]_vars

CrashSpec == Init /\ [][Next \/ Crash]_vars

\* the event loop runs the watcher task whenever it can take a step
FairSpec == Spec /\ WF_vars(Watcher)

---------------------------------------------------------------------------
(* The requests of one observed client, each handled to completion *)

CreatePerson ==
    \E b \in FormBirthdays, avatar \in BOOLEAN :
        /\ create_person(b[1], b[2], avatar)
        /\ UNCHANGED req
        /\ resp' = Response("create_person", ids.person + 1, TRUE, create_person_status,
                            NoFiles, NoFiles)

PersonEdit ==
    \E pid \in PersonIds :
        /\ Render
        /\ UNCHANGED req
        /\ resp' = Response("person_edit", pid, pid \in DOMAIN person,
                            person_edit_status(pid), NoFiles, NoFiles)

PersonDetail ==
    \E pid \in PersonIds :
        /\ Render
        /\ UNCHANGED req
        /\ resp' = Response("person_detail", pid, pid \in DOMAIN person,
                            person_detail_status(pid), NoFiles, NoFiles)

Replaced(rows, id, path, upload) ==
    IF id \in DOMAIN rows /\ upload THEN {rows[id][path]} \ {None} ELSE NoFiles

UpdatePerson ==
    \E pid \in PersonIds, b \in FormBirthdays, avatar \in BOOLEAN :
        \E stuck \in SUBSET Replaced(person, pid, "avatar_path", avatar) :
            /\ update_person(pid, b[1], b[2], avatar, stuck)
            /\ UNCHANGED req
            /\ resp' = [Response("update_person", pid, pid \in DOMAIN person,
                                 update_person_status(pid),
                                 Replaced(person, pid, "avatar_path", avatar), stuck)
                        EXCEPT !.upload = avatar]

Held(pid) ==
    IF pid \in DOMAIN person THEN HeldBy(pid) \ {None} ELSE NoFiles

Owned(pid) ==
    [pet |-> {i \in DOMAIN pet : pet[i].person_id = pid},
     child |-> {i \in DOMAIN child : child[i].person_id = pid},
     note |-> {i \in DOMAIN note : note[i].person_id = pid}]

PersonDelete ==
    \E pid \in PersonIds :
        \E stuck \in SUBSET Held(pid) :
            /\ person_delete(pid, stuck)
            /\ UNCHANGED req
            /\ resp' = [Response("person_delete", pid, pid \in DOMAIN person,
                                 person_delete_status(pid), Held(pid), stuck)
                        EXCEPT !.owned = IF pid \in DOMAIN person
                                         THEN Owned(pid) ELSE NoOwned]

PetCreate ==
    \E pid \in PersonIds, photo \in BOOLEAN :
        /\ pet_create(pid, photo)
        /\ UNCHANGED req
        /\ resp' = Response("pet_create", pid, pid \in DOMAIN person,
                            pet_create_status(pid), NoFiles, NoFiles)

PetEdit ==
    \E pet_id \in PetIds, photo \in BOOLEAN :
        \E stuck \in SUBSET Replaced(pet, pet_id, "photo_path", photo) :
            /\ pet_edit(pet_id, photo, stuck)
            /\ UNCHANGED req
            /\ resp' = [Response("pet_edit", pet_id, pet_id \in DOMAIN pet,
                                 pet_edit_status(pet_id),
                                 Replaced(pet, pet_id, "photo_path", photo), stuck)
                        EXCEPT !.upload = photo]

PetDelete ==
    \E pet_id \in PetIds :
        \E stuck \in SUBSET Replaced(pet, pet_id, "photo_path", TRUE) :
            /\ pet_delete(pet_id, stuck)
            /\ UNCHANGED req
            /\ resp' = Response("pet_delete", pet_id, pet_id \in DOMAIN pet,
                                pet_delete_status(pet_id),
                                Replaced(pet, pet_id, "photo_path", TRUE), stuck)

ChildCreate ==
    \E pid \in PersonIds :
        /\ child_create(pid)
        /\ UNCHANGED req
        /\ resp' = Response("child_create", pid, pid \in DOMAIN person,
                            child_create_status(pid), NoFiles, NoFiles)

ChildEdit ==
    \E child_id \in ChildIds :
        /\ child_edit(child_id)
        /\ UNCHANGED req
        /\ resp' = Response("child_edit", child_id, child_id \in DOMAIN child,
                            child_edit_status(child_id), NoFiles, NoFiles)

ChildDelete ==
    \E child_id \in ChildIds :
        /\ child_delete(child_id)
        /\ UNCHANGED req
        /\ resp' = Response("child_delete", child_id, child_id \in DOMAIN child,
                            child_delete_status(child_id), NoFiles, NoFiles)

NoteCreate ==
    \E pid \in PersonIds :
        /\ note_create(pid)
        /\ UNCHANGED req
        /\ resp' = Response("note_create", pid, pid \in DOMAIN person,
                            IF pid \in DOMAIN person THEN 302 ELSE 404, NoFiles, NoFiles)

CrudNext ==
    \/ CreatePerson \/ PersonEdit \/ PersonDetail \/ UpdatePerson \/ PersonDelete
    \/ PetCreate \/ PetEdit \/ PetDelete
    \/ ChildCreate \/ ChildEdit \/ ChildDelete
    \/ NoteCreate

CrudSpec == Init /\ [][CrudNext]_vars

---------------------------------------------------------------------------
(* Requests in concurrent threads.  FastAPI runs each `def` handler in a     *)
(* thread of its pool, with a session of its own; a handler is a sequence    *)
(* of statements, and the statements of two requests interleave.  A step    *)
(* below is what one thread does between two points at which the store can  *)
(* change under it: a session.get or select (autocommit read), or the       *)
(* flush and commit that end the handler.                                   *)
(* PRAGMA foreign_keys=ON is executed on the one connection init_db uses    *)
(* (app/db.py); the connection a session gets may be that one or another,   *)
(* so a commit runs with foreign keys enforced (fk) or not.                 *)

Start(t, op, id, pc, upload, path) ==
    [req EXCEPT ![t] = [NoReq EXCEPT !.op = op, !.id = id, !.pc = pc,
                                     !.upload = upload, !.path = path]]

Done(t) == [req EXCEPT ![t] = NoReq]

At(t, op, pc) == req[t].op = op /\ req[t].pc = pc

\* p = session.get(Person, pid); a missing person is answered at once
PersonDeleteGet(t) ==
    /\ req[t].pc = "idle"
    /\ \E pid \in PersonIds :
          req' = IF pid \in DOMAIN person
                 THEN Start(t, "person_delete", pid, "pets", FALSE, person[pid].avatar_path)
                 ELSE req
    /\ UNCHANGED <<today, dbVars, resp, watcherVars, dateVars>>

\* the select of the pets and the loop over them: the photo files go now,
\* the rows are marked for deletion
PersonDeletePets(t) ==
    /\ At(t, "person_delete", "pets")
    /\ files' = RemoveEach(files, {pet[i].photo_path : i \in PetsOf(req[t].id)}, {})
    /\ req' = [req EXCEPT ![t].sel.pet = PetsOf(req[t].id), ![t].pc = "children"]
    /\ UNCHANGED <<today, person, pet, child, note, ids, resp, watcherVars, dateVars>>

PersonDeleteChildren(t) ==
    /\ At(t, "person_delete", "children")
    /\ req' = [req EXCEPT ![t].sel.child = ChildrenOf(req[t].id), ![t].pc = "notes"]
    /\ UNCHANGED <<today, dbVars, resp, watcherVars, dateVars>>

PersonDeleteNotes(t) ==
    /\ At(t, "person_delete", "notes")
    /\ req' = [req EXCEPT ![t].sel.note = NotesOf(req[t].id), ![t].pc = "commit"]
    /\ UNCHANGED <<today, dbVars, resp, watcherVars, dateVars>>

\* the rows of pid that the selects of thread t did not see
Unseen(t) ==
    LET pid == req[t].id
    IN  (PetsOf(pid) \ req[t].sel.pet) \cup (ChildrenOf(pid) \ req[t].sel.child)
            \cup (NotesOf(pid) \ req[t].sel.note)

\* _safe_remove_file(p.avatar_path); session.delete(p); session.commit().
\* The flush deletes the selected rows and the person by key (a row that is
\* gone already is passed over with a warning).  With foreign keys enforced
\* the DELETE of a person that still has a row raises IntegrityError and the
\* transaction is rolled back; without, the person goes and the row stays.
PersonDeleteCommit(t) ==
    /\ At(t, "person_delete", "commit")
    /\ files' = safe_remove_file(files, req[t].path, FALSE)
    /\ \E fk \in BOOLEAN :
          IF fk /\ req[t].id \in DOMAIN person /\ Unseen(t) # {}
          THEN UNCHANGED <<person, pet, child, note>>
          ELSE /\ pet' = [i \in DOMAIN pet \ req[t].sel.pet |-> pet[i]]
               /\ child' = [i \in DOMAIN child \ req[t].sel.child |-> child[i]]
               /\ note' = [i \in DOMAIN note \ req[t].sel.note |-> note[i]]
               /\ person' = Without(person, req[t].id)
    /\ req' = Done(t)
    /\ UNCHANGED <<today, ids, resp, watcherVars, dateVars>>

\* `if not session.get(Person, pid)`: a missing person is answered with 404
PetCreateGet(t) ==
    /\ req[t].pc = "idle"
    /\ \E pid \in PersonIds, photo \in BOOLEAN :
          req' = IF pid \in DOMAIN person
                 THEN Start(t, "pet_create", pid, "insert", photo, None)
                 ELSE req
    /\ UNCHANGED <<today, dbVars, resp, watcherVars, dateVars>>

\* the upload is written, then session.add(pet); session.commit().  With
\* foreign keys enforced the INSERT for a person that is gone raises
\* IntegrityError; without, the row is stored.
PetCreateCommit(t) ==
    /\ At(t, "pet_create", "insert")
    /\ ids.pet < MaxPets
    /\ req[t].upload => ids.file < MaxFiles
    /\ LET photo_path == IF req[t].upload THEN ids.file + 1 ELSE None
       IN  /\ files' = IF req[t].upload THEN files \cup {photo_path} ELSE files
           /\ \E fk \in BOOLEAN :
                 IF fk /\ req[t].id \notin DOMAIN person
                 THEN /\ UNCHANGED pet
                      /\ ids' = [ids EXCEPT !.file = IF req[t].upload THEN @ + 1 ELSE @]
                 ELSE /\ pet' = With(pet, ids.pet + 1, Pet(req[t].id, photo_path))
                      /\ ids' = [ids EXCEPT !.pet = @ + 1,
                                            !.file = IF req[t].upload THEN @ + 1 ELSE @]
    /\ req' = Done(t)
    /\ UNCHANGED <<today, person, child, note, resp, watcherVars, dateVars>>

ChildCreateGet(t) ==
    /\ req[t].pc = "idle"
    /\ \E pid \in PersonIds :
          req' = IF pid \in DOMAIN person
                 THEN Start(t, "child_create", pid, "insert", FALSE, None)
                 ELSE req
    /\ UNCHANGED <<today, dbVars, resp, watcherVars, dateVars>>

ChildCreateCommit(t) ==
    /\ At(t, "child_create", "insert")
    /\ ids.child < MaxChildren
    /\ \E fk \in BOOLEAN :
          IF fk /\ req[t].id \notin DOMAIN person
          THEN UNCHANGED <<child, ids>>
          ELSE /\ child' = With(child, ids.child + 1, Child(req[t].id))
               /\ ids' = [ids EXCEPT !.child = @ + 1]
    /\ req' = Done(t)
    /\ UNCHANGED <<today, person, pet, note, files, resp, watcherVars, dateVars>>

\* pet = session.get(Pet, pet_id); a missing pet is answered with a redirect
PetEditGet(t) ==
    /\ req[t].pc = "idle"
    /\ \E pet_id \in PetIds, photo \in BOOLEAN :
          req' = IF pet_id \in DOMAIN pet
                 THEN Start(t, "pet_edit", pet_id, "update", photo, pet[pet_id].photo_path)
                 ELSE req
    /\ UNCHANGED <<today, dbVars, resp, watcherVars, dateVars>>

\* the old photo is removed and the upload written, then session.commit():
\* the UPDATE of a row that is gone raises StaleDataError and stores nothing
PetEditCommit(t) ==
    /\ At(t, "pet_edit", "update")
    /\ req[t].upload => ids.file < MaxFiles
    /\ LET new == ids.file + 1
       IN  /\ files' = IF req[t].upload
                       THEN safe_remove_file(files, req[t].path, FALSE) \cup {new}
                       ELSE files
           /\ ids' = [ids EXCEPT !.file = IF req[t].upload THEN new ELSE @]
           /\ pet' = IF req[t].id \in DOMAIN pet
                     THEN [pet EXCEPT ![req[t].id].photo_path =
                                          IF req[t].upload THEN new ELSE @]
                     ELSE pet
    /\ req' = Done(t)
    /\ UNCHANGED <<today, person, child, note, resp, watcherVars, dateVars>>

ChildEditGet(t) ==
    /\ req[t].pc = "idle"
    /\ \E child_id \in ChildIds :
          req' = IF child_id \in DOMAIN child
                 THEN Start(t, "child_edit", child_id, "update", FALSE, None)
                 ELSE req
    /\ UNCHANGED <<today, dbVars, resp, watcherVars, dateVars>>

\* every column child_edit writes is a text or birth-date column of child;
\* the UPDATE of a row that is gone raises StaleDataError
ChildEditCommit(t) ==
    /\ At(t, "child_edit", "update")
    /\ req' = Done(t)
    /\ UNCHANGED <<today, dbVars, resp, watcherVars, dateVars>>

\* a person is created by a request that no other request overlaps
ConcCreatePerson ==
    /\ \A t \in Threads : req[t].pc = "idle"
    /\ \E b \in FormBirthdays, avatar \in BOOLEAN : create_person(b[1], b[2], avatar)
    /\ UNCHANGED clientVars

ConcNext ==
    \/ ConcCreatePerson
    \/ \E t \in Threads :
          \/ PersonDeleteGet(t) \/ PersonDeletePets(t) \/ PersonDeleteChildren(t)
          \/ PersonDeleteNotes(t) \/ PersonDeleteCommit(t)
          \/ PetCreateGet(t) \/ PetCreateCommit(t)
          \/ ChildCreateGet(t) \/ ChildCreateCommit(t)
          \/ PetEditGet(t) \/ PetEditCommit(t)
          \/ ChildEditGet(t) \/ ChildEditCommit(t)

ConcSpec == Init /\ [][ConcNext]_vars

---------------------------------------------------------------------------
(* update_person in a request thread beside the scheduler: the handler      *)
(* loads the row, assigns the form's fields to it and commits; the scan may *)
(* commit between the two.                                                  *)

\* an UPDATE that writes the row as the handler loaded it
Updated_whole_row(current, loaded, birth_day, birth_month) ==
    [loaded EXCEPT !.birth_day = birth_day, !.birth_month = birth_month]

\* the row after the UPDATE of the flush, which sets the columns the handler
\* assigned (none of them a marker) and leaves the others as they are stored
Updated(current, loaded, birth_day, birth_month) ==
    [current EXCEPT !.birth_day = birth_day, !.birth_month = birth_month]

\* p = session.get(Person, pid); a missing person is answered with 404
UpdatePersonGet(t) ==
    /\ req[t].pc = "idle"
    /\ \E pid \in PersonIds :
          req' = IF pid \in DOMAIN person
                 THEN [Start(t, "update_person", pid, "update", FALSE,
                             person[pid].avatar_path)
                       EXCEPT ![t].row = person[pid]]
                 ELSE req
    /\ UNCHANGED <<today, dbVars, resp, watcherVars, dateVars>>

\* the assignments and session.commit(), without an upload; the UPDATE of a
\* row that is gone raises StaleDataError
UpdatePersonCommit(t) ==
    /\ At(t, "update_person", "update")
    /\ \E b \in MovedBirthdays :
          person' = IF req[t].id \in DOMAIN person
                    THEN [person EXCEPT ![req[t].id] = Updated(@, req[t].row, b[1], b[2])]
                    ELSE person
    /\ req' = Done(t)
    /\ UNCHANGED <<today, pet, child, note, files, ids, resp, watcherVars, dateVars>>

FrameRequests ==
    \/ \E b \in BirthInputs : create_person(b[1], b[2], FALSE) /\ UNCHANGED clientVars
    \/ \E pid \in PersonIds : person_delete(pid, {}) /\ UNCHANGED clientVars
    \/ \E t \in Threads : UpdatePersonGet(t) \/ UpdatePersonCommit(t)

FrameNext == Watcher \/ Tick \/ FrameRequests

FrameSpec == Init /\ [][FrameNext]_vars

---------------------------------------------------------------------------
(* The helpers applied to bounded inputs: one call per behaviour. *)

DateYears == {2023, 2024}
TodayDays == 1..31
Todays ==
    {Date(y, m, d) : <<y, m, d>> \in
        {t \in DateYears \X (1..12) \X TodayDays : DateOk(t[1], t[2], t[3])}}

\* every (month, day) that is a calendar day in some year, 29 February included
Birthdays == {md \in (1..12) \X (1..31) : md[2] <= DaysInMonth(2024, md[1])}

SafeDateYears == {1900, 2000, 2023, 2024}
MaxDay == 33

AgeDays == {None, 1, 15, 28, 29, 30, 31, 32}
AgeMonths == {None, 1, 2, 3, 12, 13}
AgeYears == {None, -1, 1990, 2000, 2024}

DateInit ==
    /\ Idle
    /\ ret = <<>>
    /\ \/ /\ fn = "safe_date"
          /\ today = Date(2024, 1, 1)
          /\ arg \in {Date(y, m, d) : <<y, m, d>> \in SafeDateYears \X (1..12) \X (1..MaxDay)}
       \/ /\ fn = "next_birthday"
          /\ today \in Todays
          /\ arg \in {Date(None, md[1], md[2]) : md \in Birthdays}
       \/ /\ fn = "calc_age"
          /\ today \in Todays
          /\ arg \in {Date(y, m, d) : <<y, m, d>> \in AgeYears \X AgeMonths \X AgeDays}

CallSafeDate ==
    /\ fn = "safe_date" /\ ret = <<>>
    /\ ret' = <<safe_date(arg.year, arg.month, arg.day)>>
    /\ UNCHANGED <<today, dbVars, clientVars, watcherVars, fn, arg>>

CallNextBirthday ==
    /\ fn = "next_birthday" /\ ret = <<>>
    /\ ret' = <<next_birthday(today, arg.month, arg.day)>>
    /\ UNCHANGED <<today, dbVars, clientVars, watcherVars, fn, arg>>

CallCalcAge ==
    /\ fn = "calc_age" /\ ret = <<>>
    /\ ret' = <<calc_age(arg.day, arg.month, arg.year)>>
    /\ UNCHANGED <<today, dbVars, clientVars, watcherVars, fn, arg>>

DateNext == CallSafeDate \/ CallNextBirthday \/ CallCalcAge

DateSpec == DateInit /\ [][DateNext]_vars

---------------------------------------------------------------------------
(* Claims about the request handlers, checked under CrudSpec *)

\* no row of pet, child or note names the person pid
NoRowOf(pid) ==
    /\ \A i \in DOMAIN pet : pet[i].person_id # pid
    /\ \A i \in DOMAIN child : child[i].person_id # pid
    /\ \A i \in DOMAIN note : note[i].person_id # pid

\* C5 as stated: after person_delete of an existing person no pet, child or
\* note of that person remains, the avatar file and the photo file of every
\* pet of the person are no longer in the uploads directory, and a view of
\* the person answers 404.
C5_DeleteCascadesAsStated ==
    (resp.op = "person_delete" /\ resp.found) =>
        /\ NoRowOf(resp.id)
        /\ \A f \in resp.held : f \notin files
        /\ person_detail_status(resp.id) = 404

\* C5, amended: after person_delete of an existing person no pet, child or
\* note of that person remains and a view of the person answers 404; the
\* avatar file and the photo files of the person's pets are no longer in the
\* uploads directory, except a file whose removal failed, which stays.
C5_DeleteCascades ==
    (resp.op = "person_delete" /\ resp.found) =>
        /\ NoRowOf(resp.id)
        /\ \A f \in resp.held : f \in files <=> f \in resp.stuck
        /\ person_detail_status(resp.id) = 404

\* a person with two pets, both with a photo, and a note was deleted, and
\* the removal of one of the two files failed
C5_Witness ==
    /\ resp.op = "person_delete" /\ resp.found
    /\ Cardinality(resp.owned.pet) = 2
    /\ Cardinality(resp.owned.note) = 1
    /\ Cardinality(resp.held) = 2
    /\ Cardinality(resp.stuck) = 1
    /\ resp.id \notin DOMAIN person

LookupOps ==
    {"person_detail", "person_edit", "update_person", "person_delete",
     "pet_edit", "pet_delete", "child_edit", "child_delete",
     "pet_create", "child_create"}

\* the lookups that answer a missing entity with status 404; the others
\* answer it with a redirect to "/"
NotFoundOps == {"person_detail", "person_edit", "update_person", "pet_create", "child_create"}

\* C9 as stated: every operation that looks an entity up by id answers 404
\* when no entity has that id, and then changes no row and no file.
C9_NotFoundAsStated ==
    [][(resp'.op \in LookupOps /\ ~resp'.found) =>
          (resp'.status = 404 /\ UNCHANGED dbVars)]_vars

\* C9, amended: when no entity has the id, person view, edit form and update
\* and pet and child creation answer 404; person delete, pet edit and delete
\* and child edit and delete answer with a redirect (302); in every case no
\* row and no file is created, changed or deleted.
C9_NotFound ==
    [][(resp'.op \in LookupOps /\ ~resp'.found) =>
          /\ resp'.status = IF resp'.op \in NotFoundOps THEN 404 ELSE 302
          /\ UNCHANGED dbVars]_vars

\* a pet was edited under an id no pet has, with rows and files in the store
C9_Witness ==
    /\ resp.op = "pet_edit" /\ ~resp.found /\ resp.status = 302
    /\ DOMAIN person # {} /\ DOMAIN pet # {} /\ files # {}

---------------------------------------------------------------------------
(* Claims about the date helpers, checked under DateSpec *)

\* C3 as stated: the next occurrence computed by the scan is never before
\* today, and it is today only when the person's (month, day) is today's.
C3_NextOccurrenceAsStated ==
    (fn = "next_birthday" /\ ret # <<>>) =>
        /\ ret[1] # Raised
        /\ ~DateLt(ret[1], today)
        /\ (ret[1] = today => arg.month = today.month /\ arg.day = today.day)

\* C3, amended: the next occurrence is never before today, and it is today
\* only when the person's (month, day) is today's, or when the person's day is
\* 29 February and today is 28 February of a year that is not a leap year.
C3_NextOccurrence ==
    (fn = "next_birthday" /\ ret # <<>>) =>
        /\ ret[1] # Raised
        /\ ~DateLt(ret[1], today)
        /\ (ret[1] = today =>
              \/ arg.month = today.month /\ arg.day = today.day
              \/ /\ arg.month = 2 /\ arg.day = 29
                 /\ today.month = 2 /\ today.day = 28 /\ ~IsLeap(today.year))

C3_Witness ==
    /\ fn = "next_birthday"
    /\ today = Date(2023, 2, 28)
    /\ arg.month = 2 /\ arg.day = 29
    /\ ret = <<today>>

\* C4: for a month in 1..12 and a day >= 1, _safe_date returns the date of the
\* same year and month whose day is the largest valid day not above the given
\* day (a valid date comes back unchanged).
C4_SafeDateClamps ==
    (fn = "safe_date" /\ ret # <<>>) =>
        LET valid == {k \in 1..arg.day : DateOk(arg.year, arg.month, k)}
        IN  /\ ret[1] # Raised
            /\ ret[1].year = arg.year
            /\ ret[1].month = arg.month
            /\ ret[1].day \in valid
            /\ \A k \in valid : k <= ret[1].day

C4_Witness ==
    /\ fn = "safe_date"
    /\ arg = Date(1900, 2, 30)
    /\ ret = <<Date(1900, 2, 28)>>

\* C8: calc_age is None when a component is absent or the triple is no
\* calendar date; otherwise it is current year - birth year, less one exactly
\* when today's (month, day) comes earlier in the year than the birth's.
C8_CalcAge ==
    (fn = "calc_age" /\ ret # <<>>) =>
        LET absent == arg.day = None \/ arg.month = None \/ arg.year = None
            valid == ~absent /\ DateOk(arg.year, arg.month, arg.day)
            earlier == DaysBeforeMonth(2024, today.month) + today.day
                         < DaysBeforeMonth(2024, arg.month) + arg.day
        IN  /\ ~valid => ret[1] = <<>>
            /\ valid => ret[1] = <<today.year - arg.year - (IF earlier THEN 1 ELSE 0)>>

C8_Witness ==
    /\ fn = "calc_age"
    /\ arg = Date(1990, 3, 15)
    /\ today = Date(2024, 3, 14)
    /\ ret = << <<33>> >>

---------------------------------------------------------------------------
(* Claims about the scheduler *)

\* the value of the marker column a notification of `days` days ahead writes
Marker(row, days) == IF days = 7 THEN row.notify_year_7d ELSE row.notify_year_1d

\* the day after a
NextDate(a) ==
    IF a.day < DaysInMonth(a.year, a.month) THEN Date(a.year, a.month, a.day + 1)
    ELSE IF a.month < 12 THEN Date(a.year, a.month + 1, 1)
    ELSE Date(a.year + 1, 1, 1)

RECURSIVE Ahead(_, _)
\* the date n days after t, counted day by day
Ahead(t, n) == IF n = 0 THEN t ELSE Ahead(NextDate(t), n - 1)

\* the birthday of the loaded row p falls n days after t
BirthdayIn(p, t, n) ==
    /\ Ahead(t, n).month = p.birth_month
    /\ Ahead(t, n).day = p.birth_day

Called(id, days) == \E r \in scan.run : r.id = id /\ r.days = days

\* the commit of the scan was attempted: the loop is over and the scan has
\* left it by the commit
PastLoop == scan.idx > Len(scan.people)

\* C1: for each person and each threshold, at most one notification of that
\* threshold is sent within one calendar year, whatever the scans and the
\* requests between them do.
C1_AtMostOncePerYear == \A key \in DOMAIN sent : sent[key] <= 1

\* C2: a completed scan has sent the 7-day notification of a person whose
\* birthday is present exactly when the birthday is 7 days ahead and the
\* loaded notify_year_7d differs from the scan's year (likewise the 1-day
\* notification), and the marker of each notification it sent equals that
\* year; so a person whose marker already is the year gets none.
C2_CompletedScan ==
    scan.result = "committed" =>
        \A i \in 1..Len(scan.people) :
            LET p == scan.people[i]
                year == scan.today.year
            IN  (p.birth_day # None /\ p.birth_month # None) =>
                    /\ Called(p.id, 7) <=> (BirthdayIn(p, scan.today, 7) /\ p.notify_year_7d # year)
                    /\ Called(p.id, 1) <=> (BirthdayIn(p, scan.today, 1) /\ p.notify_year_1d # year)
                    /\ \A days \in {7, 1} :
                          (Called(p.id, days) /\ p.id \in DOMAIN person) =>
                              Marker(person[p.id], days) = year

\* a completed second scan of the day: the person's birthday is 7 days ahead,
\* the marker is the year, one notification was sent and this scan sent none
C2_Witness ==
    /\ scan.result = "committed"
    /\ scan.run = {}
    /\ \E i \in 1..Len(scan.people) :
          /\ BirthdayIn(scan.people[i], scan.today, 7)
          /\ scan.people[i].notify_year_7d = scan.today.year
          /\ Count(<<scan.people[i].id, 7>>) = 1

\* C6: the watcher task never ends, and after a scan that completed or
\* raised a new scan eventually starts from its beginning.
C6_WatcherNeverDies ==
    /\ [](wpc # "dead")
    /\ (wpc \in {"yielded", "raised"}) ~>
           (wpc = "loop" /\ scan.result = "running" /\ scan.idx = 1)

\* the except clause has caught the exception of a scan and the task sleeps
C6_Witness == wpc = "sleep" /\ scan.result = "logged"

\* C7: a delivery that fails raises nothing at that person, is the only
\* call for that person and threshold in the run, lets the loop go on to the
\* persons after, and the commit persists the marker of that person and of
\* every other person notified in the run.
C7_FailedDelivery ==
    \A r \in scan.run :
        ~r.ok =>
            /\ \A i \in 1..Len(scan.people) :
                  scan.people[i].id = r.id =>
                      /\ ~(scan.result = "raised" /\ scan.idx = i)
                      /\ scan.result \in {"running", "committed"} => scan.idx > i
            /\ Cardinality({q \in scan.run : q.id = r.id /\ q.days = r.days}) = 1
            /\ scan.result = "committed" =>
                  /\ PastLoop
                  /\ \A q \in scan.run :
                        q.id \in DOMAIN person => Marker(person[q.id], q.days) = q.year

\* a completed scan in which a delivery failed and a person after that one
\* was notified, both markers persisted
C7_Witness ==
    /\ scan.result = "committed"
    /\ \E r \in scan.run, q \in scan.run :
          /\ ~r.ok /\ q.id > r.id
          /\ {r.id, q.id} \subseteq DOMAIN person
          /\ Marker(person[r.id], r.days) = r.year
          /\ Marker(person[q.id], q.days) = q.year

\* the markers of every loaded person that still exists are as loaded
MarkersAsLoaded ==
    \A i \in 1..Len(scan.people) :
        LET p == scan.people[i]
        IN  p.id \in DOMAIN person =>
                /\ person[p.id].notify_year_7d = p.notify_year_7d
                /\ person[p.id].notify_year_1d = p.notify_year_1d

\* the markers of every person the scan notified that still exists are the year
MarkersPersisted ==
    \A r \in scan.run : r.id \in DOMAIN person => Marker(person[r.id], r.days) = r.year

\* C10 as stated: a scan that reaches its commit persists the marker of every
\* person it touched, and a scan that stops before the commit (exception or
\* crash inside the loop) leaves the markers of every person as they were.
C10_AtomicAsStated ==
    /\ (PastLoop /\ scan.result \in {"committed", "raised"}) => MarkersPersisted
    /\ (scan.result = "crashed" \/ (scan.result = "raised" /\ ~PastLoop)) => MarkersAsLoaded

\* C10, amended: a scan whose commit succeeds persists the marker of every
\* person it touched; a scan that stops before the commit, or whose commit
\* raises because a person it touched was deleted meanwhile, leaves the
\* markers of every remaining person as they were.
C10_Atomic ==
    /\ scan.result = "committed" => (PastLoop /\ MarkersPersisted)
    /\ scan.result \in {"raised", "crashed"} => MarkersAsLoaded

\* the commit has raised: one notified person was deleted meanwhile, another
\* is still there with its marker as loaded
C10_Witness ==
    /\ scan.result = "raised" /\ PastLoop
    /\ \E r \in scan.run, q \in scan.run :
          /\ r.id \notin DOMAIN person
          /\ q.id \in DOMAIN person
          /\ Marker(person[q.id], q.days) # q.year

---------------------------------------------------------------------------
(* Claims about concurrent requests, checked under ConcSpec *)

\* C11: in every reachable state, whatever the interleaving of person_delete
\* with pet_create, child_create, pet_edit and child_edit in other threads,
\* every Pet, Child and Note row has a person_id of an existing Person row.
C11_Ownership ==
    /\ \A i \in DOMAIN pet : pet[i].person_id \in DOMAIN person
    /\ \A i \in DOMAIN child : child[i].person_id \in DOMAIN person
    /\ \A i \in DOMAIN note : note[i].person_id \in DOMAIN person

---------------------------------------------------------------------------
(* Claims about the uploads directory, checked under CrudSpec *)

\* the file references held by the rows of person and pet
Refs ==
    ({person[i].avatar_path : i \in DOMAIN person}
        \cup {pet[i].photo_path : i \in DOMAIN pet}) \ {None}

\* the reference an update_person or pet_edit request is about, in rows
RefOf(rows, r) ==
    IF r.op = "update_person" THEN rows[r.id].avatar_path ELSE rows[r.id].photo_path

RowsOf(r, persons, pets) == IF r.op = "update_person" THEN persons ELSE pets

\* C12 as stated: after any sequence of requests, each run to completion, the
\* files in the uploads directory are exactly the file references held by
\* the existing Person.avatar_path and Pet.photo_path values.
C12_FilesAsStated == files = Refs

\* C12, amended: every held reference names a file of the uploads directory;
\* a request adds exactly the files of the references it adds and removes
\* exactly the files of the references it drops, except a file whose removal
\* raised an error, which stays without a reference; an update with an upload
\* replaces the reference by a new file, and an update without one keeps the
\* reference and the file.
C12_Files ==
    /\ [](Refs \subseteq files)
    /\ [][/\ files' = (files \ ((Refs \ Refs') \ resp'.stuck)) \cup (Refs' \ Refs)
          /\ (resp'.op \in {"update_person", "pet_edit"} /\ resp'.found) =>
                LET old == RefOf(RowsOf(resp', person, pet), resp')
                    new == RefOf(RowsOf(resp', person', pet'), resp')
                IN  IF resp'.upload
                    THEN /\ new \notin files /\ new \in files'
                         /\ old # None => (old \in files' <=> old \in resp'.stuck)
                    ELSE new = old /\ files' = files]_vars

\* a person was updated with an upload: the previous file is gone and the
\* directory holds exactly the references
C12_Witness ==
    /\ resp.op = "update_person" /\ resp.found /\ resp.upload
    /\ resp.held # {} /\ resp.stuck = {}
    /\ resp.held \cap files = {}
    /\ person[resp.id].avatar_path \in files
    /\ files = Refs

---------------------------------------------------------------------------
(* Claims about what the scan and update_person leave alone, checked under  *)
(* FrameSpec                                                                *)

\* row b is row a but for the two markers
SameButMarkers(a, b) ==
    b = [a EXCEPT !.notify_year_7d = b.notify_year_7d,
                  !.notify_year_1d = b.notify_year_1d]

\* row b has the markers of row a
SameMarkers(a, b) ==
    /\ b.notify_year_7d = a.notify_year_7d
    /\ b.notify_year_1d = a.notify_year_1d

\* C13: a step of the scan changes nothing stored but the two markers of
\* person rows (no other column, no pet, child or note, no file, no row added
\* or removed); the commit of update_person changes no marker of any person,
\* also when it changes the birthday and also when the scan has read or
\* committed since the handler loaded the row.
C13_Frame ==
    [][/\ (<<wpc, scan>>' # <<wpc, scan>>) =>
             /\ UNCHANGED <<pet, child, note, files, ids>>
             /\ DOMAIN person' = DOMAIN person
             /\ \A i \in DOMAIN person : SameButMarkers(person[i], person'[i])
       /\ (\E t \in Threads : At(t, "update_person", "update") /\ req'[t] = NoReq) =>
             /\ DOMAIN person' = DOMAIN person
             /\ \A i \in DOMAIN person : SameMarkers(person[i], person'[i])]_vars

\* inside a scan: a person the scan loaded with its birthday 7 days ahead and
\* notified has been given another birthday by an update since, and the
\* stored markers are as the scan loaded them
C13_Witness ==
    /\ wpc = "loop"
    /\ \E i \in 1..Len(scan.people) :
          LET p == scan.people[i]
          IN  /\ Called(p.id, 7)
              /\ p.id \in DOMAIN person
              /\ person[p.id].birth_day # p.birth_day
              /\ person[p.id].notify_year_7d = p.notify_year_7d
              /\ person[p.id].notify_year_1d = p.notify_year_1d

---------------------------------------------------------------------------
(* Claims about malformed birth dates, checked under Spec *)

\* C14: for every person create_person or update_person can store, the date
\* correction of the scan returns a date, so the loop of a scan never raises
\* and the people after a person with a malformed birth date are processed.
C14_MalformedDateNeverRaises == scan.result = "raised" => PastLoop

=============================================================================
